---------------------------- MODULE Spec2Model ----------------------------
(***************************************************************************)
(* Connectivity probe engine of tonglema.                                  *)
(*                                                                         *)
(*   src/services/networkService.ts   fetchUrl, checkConnectivity          *)
(*   src/App.tsx (lines 31-334)       handleCheckSite, handleCheckAll,     *)
(*                                    the mount and auto-refresh effects   *)
(*   src/components/Header.tsx        the refresh interval select          *)
(*   src/components/useSitesManager.ts  the site store                     *)
(*                                                                         *)
(* JavaScript runs one task at a time.  A handler runs without             *)
(* interruption up to its next await, and when a fetch settles or a timer  *)
(* fires, every promise continuation that becomes runnable is executed     *)
(* before the next task starts.  Each action below is therefore one task   *)
(* together with the continuations it releases.  The React state setters   *)
(* used by the handlers are absolute values or functional updaters, which  *)
(* React applies in call order, so they are modelled as assignments.       *)
(***************************************************************************)
EXTENDS Integers, Sequences, FiniteSets, TLC

VARIABLES
    now,            \* the clock read by performance.now() and Date.now(), ms
    mounted,        \* the mount effects of App have run
    refreshInterval,\* React state refreshInterval; the interval timer is armed iff # 0
    isCheckingRef,  \* isCheckingRef.current
    isChecking,     \* React state isChecking
    lastChecked,    \* React state lastChecked (Null until the first run)
    refreshingIds,  \* React state refreshingIds, the RefreshSet
    results,        \* React state results, the Result Store: siteId -> CheckResult
    runs,           \* activations of handleCheckAll suspended at line 281
    probes,         \* checkConnectivity calls: in flight, or resolved and held by Promise.all
    timers,         \* armed setTimeout timers of fetchUrl
    lastCall,       \* SpecCalls only: whether the latest step called handleCheckAll,
                    \* and whether a run was active when it did; SpecInterval
                    \* only: whether the latest step was the interval timer firing
    loop,           \* SpecBatch only: the for loop of handleCheckAll over a
                    \* collection of loop.n sites
    data,           \* SpecSites only: React state data of useSitesManager
    intervalTimers  \* SpecInterval only: the armed setInterval timers of the
                    \* Auto Refresh Effect, each its interval, in arming order

vars == <<now, mounted, refreshInterval, isCheckingRef, isChecking, lastChecked,
          refreshingIds, results, runs, probes, timers, lastCall, loop, data,
          intervalTimers>>

(***************************************************************************)
(* Bounds of the model.                                                    *)
(***************************************************************************)
NumSites   == 7     \* length of SITES; more than one batch
MaxTicks   == 2     \* the clock stops advancing after MaxTicks ticks
TickMs     == 5000  \* clock resolution
MaxRunOne  == 1     \* handleCheckSite calls in flight at once
MaxRunSlots == 2    \* handleCheckAll activations the model can hold at once
MaxCollection == 30 \* SpecBatch: the largest collection the loop is run over
MaxStoreSites == 2  \* SpecSites: the site store holds at most MaxStoreSites sites

(***************************************************************************)
(* Program constants.                                                      *)
(***************************************************************************)
batchSize          == 6
TIMEOUT_MS         == 5000
FAVICON_TIMEOUT_MS == 4000

Null == -1

(***************************************************************************)
(* The site collection.  SITES is imported from ./constants; it is an      *)
(* ordered list of SiteConfig with unique ids and parseable URLs.          *)
(***************************************************************************)
SITES == [k \in 1..NumSites |->
            [id |-> k, url |-> [valid |-> TRUE, origin |-> k, path |-> "/"]]]

SiteIds == {SITES[k].id : k \in 1..Len(SITES)}

(***************************************************************************)
(* The transport.  Requests to the sites of SlowSites may stay outstanding *)
(* while the clock advances and may fail; the other sites answer within    *)
(* the clock tick in which they are asked.                                 *)
(***************************************************************************)
SlowSites == {1}

Outcomes(k) == IF k \in SlowSites THEN {"ok", "net"} ELSE {"ok"}

\* the cards whose own refresh button the user presses
RunOneSites == {1}

\* the refresh interval found in localStorage at startup (Header.tsx line 25)
SavedIntervals == {3000}

(***************************************************************************)
(* types.ts                                                                *)
(***************************************************************************)
ConnectivityStatus == {"IDLE", "PENDING", "SUCCESS", "ERROR", "TIMEOUT"}

\* the value of a promise that has not resolved
NoValue == [siteId |-> 0, status |-> "NONE", latency |-> 0, timestamp |-> 0]

(***************************************************************************)
(* networkService.ts                                                       *)
(***************************************************************************)
\* the catch of line 47 is empty: faviconUrl stays the empty string
faviconUrlEmptyOnThrow(url) ==
    IF url.valid THEN [valid |-> TRUE, origin |-> url.origin, path |-> "/favicon.ico"]
    ELSE [valid |-> FALSE, origin |-> 0, path |-> "", raw |-> 0]

\* lines 43-50: the favicon URL, or the raw URL when new URL(url) throws
faviconUrl(url) ==
    IF url.valid THEN [valid |-> TRUE, origin |-> url.origin, path |-> "/favicon.ico"]
    ELSE url

\* lines 9, 25-26: Math.round(end - start) of two clock readings
elapsed(start, end) == end - start

\* line 11: the timeout passed to fetchUrl by each attempt (lines 54, 67)
timeoutOf(phase) == IF phase = "favicon" THEN FAVICON_TIMEOUT_MS ELSE TIMEOUT_MS

\* only the error of the fallback attempt is examined
failureStatusFallbackOnly(err1, err2) ==
    IF err2 = "abort" THEN "TIMEOUT" ELSE "ERROR"

\* lines 75-80: status when both attempts failed
failureStatus(err1, err2) ==
    IF err1 = "abort" \/ err2 = "abort" THEN "TIMEOUT" ELSE "ERROR"

\* lines 55-60, 68-73
successResult(siteId, latency, t) ==
    [siteId |-> siteId, status |-> "SUCCESS", latency |-> latency, timestamp |-> t]

\* a failed probe reports the timeout budget as its latency
failureResultTimeoutLatency(siteId, err1, err2, t) ==
    [siteId |-> siteId, status |-> failureStatus(err1, err2),
     latency |-> TIMEOUT_MS, timestamp |-> t]

\* lines 82-87
failureResult(siteId, err1, err2, t) ==
    [siteId |-> siteId, status |-> failureStatus(err1, err2), latency |-> 0, timestamp |-> t]

\* one request handed to fetch (fetchUrl line 14): its URL and the time it
\* was issued; the transport fills in how and when it ended
request(url, t) == [url |-> url, at |-> t, outcome |-> "pending", end |-> t]

\* every failure reaches the caller as a plain network error
fetchUrlWrapsError(outcome) == IF outcome = "ok" THEN "ok" ELSE "net"

\* lines 24-30: what fetchUrl hands to its caller when its request ends with
\* outcome: its return for "ok", else the error of fetch, thrown again as it is
fetchUrl(outcome) == outcome

\* lines 41-54: checkConnectivity called for site, the site at position idx,
\* by owner (kind, slot): the favicon attempt is issued.  reqs lists the
\* requests of the call, start is the clock reading that fetchUrl took for
\* the attempt in flight (line 9), err1 and err2 are error.name and
\* fallbackError.name
startProbe(kind, slot, idx, site, t) ==
    [kind |-> kind, slot |-> slot, idx |-> idx, siteId |-> site.id, url |-> site.url,
     phase |-> "favicon", start |-> t, err1 |-> "none", err2 |-> "none",
     reqs |-> << request(faviconUrl(site.url), t) >>,
     result |-> NoValue]

\* the favicon branch does not return: the root attempt is issued whatever
\* the outcome
faviconDoneFallsThrough(p, outcome, t) ==
    [p EXCEPT !.phase = "root", !.start = t, !.err1 = outcome,
              !.reqs = Append(p.reqs, request(p.url, t))]

\* lines 52-67: the favicon attempt of p ends with outcome at time t
faviconDone(p, outcome, t) ==
    IF outcome = "ok"
    THEN [p EXCEPT !.phase = "resolved",
                   !.result = successResult(p.siteId, elapsed(p.start, t), t)]
    ELSE [p EXCEPT !.phase = "root", !.start = t, !.err1 = outcome,
                   !.reqs = Append(p.reqs, request(p.url, t))]

\* the latency of the fallback is measured from the start of the probe
rootDoneTotalTime(p, outcome, t) ==
    IF outcome = "ok"
    THEN [p EXCEPT !.phase = "resolved",
                   !.result = successResult(p.siteId, elapsed(p.reqs[1].at, t), t)]
    ELSE [p EXCEPT !.phase = "resolved", !.err2 = outcome,
                   !.result = failureResult(p.siteId, p.err1, outcome, t)]

\* the fallback attempt has no catch: its failure rejects the promise
rootDoneRethrows(p, outcome, t) ==
    IF outcome = "ok"
    THEN [p EXCEPT !.phase = "resolved",
                   !.result = successResult(p.siteId, elapsed(p.start, t), t)]
    ELSE [p EXCEPT !.phase = "rejected", !.err2 = outcome]

\* lines 67-88: the root attempt of p ends with outcome at time t
rootDone(p, outcome, t) ==
    IF outcome = "ok"
    THEN [p EXCEPT !.phase = "resolved",
                   !.result = successResult(p.siteId, elapsed(p.start, t), t)]
    ELSE [p EXCEPT !.phase = "resolved", !.err2 = outcome,
                   !.result = failureResult(p.siteId, p.err1, outcome, t)]

\* lines 52-89: the continuation of checkConnectivity when the attempt in
\* flight of probe p ends with outcome ("ok", "net" or "abort") at time t
checkConnectivity(p, outcome, t) ==
    IF p.phase = "favicon" THEN faviconDone(p, outcome, t) ELSE rootDone(p, outcome, t)

\* the transport records the end of the request in flight of p
settled(p, outcome, t) ==
    [p EXCEPT !.reqs[Len(p.reqs)].outcome = outcome, !.reqs[Len(p.reqs)].end = t]

\* line 11: the timer of the attempt in flight of probe p
TimerKey(p) == [kind |-> p.kind, slot |-> p.slot, idx |-> p.idx, phase |-> p.phase]

InFlight(p) == p.phase \in {"favicon", "root"}


(***************************************************************************)
(* App.tsx: the Result Store and the RefreshSet                            *)
(***************************************************************************)
\* { ...prev, [k]: v }
Put(prev, k, v) == [x \in (DOMAIN prev) \cup {k} |-> IF x = k THEN v ELSE prev[x]]

\* lines 212-217, 255-260
placeholder(siteId, t) ==
    [siteId |-> siteId, status |-> "PENDING", latency |-> 0, timestamp |-> t]

\* the placeholder is installed whether or not the site has a result
installOneAlways(prev, siteId, t) == Put(prev, siteId, placeholder(siteId, t))

\* lines 208-221: the updater of handleCheckSite; lines 254-261: the body of
\* the forEach of handleCheckAll
installOne(prev, siteId, t) ==
    IF siteId \notin DOMAIN prev THEN Put(prev, siteId, placeholder(siteId, t)) ELSE prev

\* lines 250-264: the updater of handleCheckAll, SITES.forEach from position k
RECURSIVE installFrom(_, _, _)
installFrom(next, k, t) ==
    IF k > Len(SITES) THEN next
    ELSE installFrom(installOne(next, SITES[k].id, t), k + 1, t)

installAll(prev, t) == installFrom(prev, 1, t)

\* the new result is spread over the stored one, which keeps its timestamp
mergeOneKeepsTimestamp(prev, siteId, result) ==
    Put(prev, siteId, [result EXCEPT !.timestamp = prev[siteId].timestamp])

\* the result is stored only if the site has no result yet
mergeOneIfAbsent(prev, siteId, result) ==
    IF siteId \in DOMAIN prev THEN prev ELSE Put(prev, siteId, result)

\* lines 225-228: the merge of handleCheckSite
mergeOne(prev, siteId, result) == Put(prev, siteId, result)

\* only the SUCCESS results of the batch are stored
RECURSIVE mergeBatchSuccessOnly(_, _)
mergeBatchSuccessOnly(next, batchResults) ==
    IF batchResults = <<>> THEN next
    ELSE mergeBatchSuccessOnly(
            IF Head(batchResults).status = "SUCCESS"
            THEN Put(next, Head(batchResults).siteId, Head(batchResults))
            ELSE next,
            Tail(batchResults))

\* lines 283-289: the merge of handleCheckAll, batchResults.forEach
RECURSIVE mergeBatch(_, _)
mergeBatch(next, batchResults) ==
    IF batchResults = <<>> THEN next
    ELSE mergeBatch(Put(next, Head(batchResults).siteId, Head(batchResults)),
                    Tail(batchResults))

\* only the sites of the first batch are marked as refreshing
allIdsFirstBatch == {SITES[k].id : k \in {j \in 1..Len(SITES) : j <= batchSize}}

\* line 247
allIds == {SITES[k].id : k \in 1..Len(SITES)}

\* the end index of the slice is taken as inclusive
sliceEndInclusive(n, i) == IF i + batchSize + 1 < n THEN i + batchSize + 1 ELSE n

\* Array.prototype.slice(i, i + batchSize) on an array of length n: the end
\* index is clamped to n
sliceEnd(n, i) == IF i + batchSize < n THEN i + batchSize ELSE n

\* the positions (from 1) of the elements of slice(i, i + batchSize), i from 0
slice(n, i) == [j \in 1..(sliceEnd(n, i) - i) |-> i + j]

\* the slice has no end index
batchEndOpen(i) == Len(SITES)

\* line 279: the positions of SITES.slice(i, i + batchSize), i counted from 0
batchEnd(i) == sliceEnd(Len(SITES), i)

batch(i) == [j \in 1..(batchEnd(i) - i) |-> i + j]

batchPositions(i) == {batch(i)[j] : j \in 1..Len(batch(i))}

\* the RefreshSet is emptied when the first batch completes
removeBatchClears(prev, i) == {}

\* lines 292-296
removeBatch(prev, i) == prev \ {SITES[k].id : k \in batchPositions(i)}

(***************************************************************************)
(* handleCheckAll, lines 239-302                                           *)
(***************************************************************************)
ActiveRuns == {r \in 1..MaxRunSlots : runs[r].active}

FreeRunSlot(r) == /\ r \in 1..MaxRunSlots
                  /\ ~runs[r].active
                  /\ \A q \in 1..(r - 1) : runs[q].active

\* the test reads a flag that the callback captured when it was created,
\* which is false for the lifetime of the callback
RunInProgressStaleClosure == FALSE

\* line 240: the single-flight test
RunInProgress == isCheckingRef

\* the probes of activation r
ProbesOf(ps, r) == {p \in ps : p.kind = "all" /\ p.slot = r}

\* the await resumes only when every probe of the batch reports SUCCESS
batchSettledOnSuccess(ps, r) ==
    \A x \in ProbesOf(ps, r) : x.phase = "resolved" /\ x.result.status = "SUCCESS"

\* the await resumes as soon as one probe of the batch has resolved
batchSettledAny(ps, r) == \E x \in ProbesOf(ps, r) : ~InFlight(x)

\* line 281: Promise.all resolves when every promise of the batch has
batchSettled(ps, r) == \A x \in ProbesOf(ps, r) : ~InFlight(x)

\* line 281: the value of Promise.all for the batch at i, in batch order
batchResults(ps, r, i) ==
    [j \in 1..Len(batch(i)) |->
        (CHOOSE p \in ProbesOf(ps, r) : p.idx = batch(i)[j]).result]

\* the RefreshSet is left as the batches left it
clearRefreshingKeeps(prev) == prev

\* line 301: setRefreshingIds(new Set())
clearRefreshing(prev) == {}

\* an interval tick that fell into the run is kept and replayed when the
\* loop ends: the run starts over instead of clearing the flag
RunLoopRequeues(r, i, res, ref, ps, tm, cref, cstate) ==
    IF i < Len(SITES) \/ (refreshInterval # 0 /\ now - lastChecked >= refreshInterval)
    THEN LET j   == IF i < Len(SITES) THEN i ELSE 0
             new == {startProbe("all", r, k, SITES[k], now) : k \in batchPositions(j)}
         IN /\ probes' = ps \cup new
            /\ timers' = tm \cup {TimerKey(p) : p \in new}
            /\ runs' = [runs EXCEPT ![r] = [active |-> TRUE, i |-> j]]
            /\ results' = res
            /\ refreshingIds' = IF i < Len(SITES) THEN ref ELSE allIds
            /\ isCheckingRef' = TRUE
            /\ isChecking' = TRUE
    ELSE /\ probes' = ps
         /\ timers' = tm
         /\ runs' = [runs EXCEPT ![r] = [active |-> FALSE, i |-> 0]]
         /\ results' = res
         /\ isCheckingRef' = FALSE
         /\ isChecking' = FALSE
         /\ refreshingIds' = {}

\* lines 278-301: the loop of activation r at index i, up to its next await
\* or to the end of the handler; res, ref, ps, tm, cref and cstate are the
\* values of results, refreshingIds, probes, timers, isCheckingRef.current
\* and isChecking when the loop head is reached
RunLoop(r, i, res, ref, ps, tm, cref, cstate) ==
    IF i < Len(SITES)
    THEN LET new == {startProbe("all", r, k, SITES[k], now) : k \in batchPositions(i)}
         IN /\ probes' = ps \cup new
            /\ timers' = tm \cup {TimerKey(p) : p \in new}
            /\ runs' = [runs EXCEPT ![r] = [active |-> TRUE, i |-> i]]
            /\ results' = res
            /\ refreshingIds' = ref
            /\ isCheckingRef' = cref
            /\ isChecking' = cstate
    ELSE /\ probes' = ps
         /\ timers' = tm
         /\ runs' = [runs EXCEPT ![r] = [active |-> FALSE, i |-> 0]]
         /\ results' = res
         /\ isCheckingRef' = FALSE
         /\ isChecking' = FALSE
         /\ refreshingIds' = clearRefreshing(ref)

\* the last-checked timestamp is recorded before the single-flight test
handleCheckAllLateGuard ==
    /\ lastChecked' = now
    /\ IF RunInProgress
       THEN UNCHANGED <<isCheckingRef, isChecking, refreshingIds,
                        results, runs, probes, timers>>
       ELSE \E r \in 1..MaxRunSlots :
              /\ FreeRunSlot(r)
              /\ RunLoop(r, 0, installAll(results, now), allIds, probes, timers, TRUE, TRUE)

\* lines 239-281: a call of handleCheckAll.  Lines 266-274 start a refresh of
\* the location info, which is state of its own and is left out
handleCheckAll ==
    /\ IF RunInProgress
       THEN UNCHANGED <<isCheckingRef, isChecking, lastChecked, refreshingIds,
                        results, runs, probes, timers>>
       ELSE \E r \in 1..MaxRunSlots :
              /\ FreeRunSlot(r)
              /\ lastChecked' = now
              /\ RunLoop(r, 0, installAll(results, now), allIds, probes, timers, TRUE, TRUE)

\* lines 331-334 (and 305-313: the interval effect runs at mount too)
Mount ==
    /\ ~mounted
    /\ mounted' = TRUE
    /\ handleCheckAll
    /\ UNCHANGED <<now, refreshInterval>>

\* Header.tsx line 210: the refresh button
ManualCheckAll ==
    /\ mounted
    /\ handleCheckAll
    /\ UNCHANGED <<now, mounted, refreshInterval>>

\* lines 308-310: the interval timer fires
IntervalCheckAll ==
    /\ mounted
    /\ refreshInterval # 0
    /\ handleCheckAll
    /\ UNCHANGED <<now, mounted, refreshInterval>>

(***************************************************************************)
(* handleCheckSite, lines 202-236                                          *)
(***************************************************************************)
\* the site is not marked as refreshing
addRefreshingSkips(prev, siteId) == prev

\* line 204: new Set(prev).add(site.id)
addRefreshing(prev, siteId) == prev \cup {siteId}

\* lines 231-235: the id is deleted from a copy of prev
deleteRefreshing(prev, siteId) == prev \ {siteId}

FreeOneSlot(k) == /\ k \in 1..MaxRunOne
                  /\ \A p \in probes : ~(p.kind = "one" /\ p.slot = k)
                  /\ \A q \in 1..(k - 1) : \E p \in probes : p.kind = "one" /\ p.slot = q

\* handleCheckSite records the time of its call as the last check
CheckSiteStamps(idx) ==
    /\ mounted
    /\ \E k \in 1..MaxRunOne :
         /\ FreeOneSlot(k)
         /\ LET p == startProbe("one", k, idx, SITES[idx], now)
            IN /\ probes' = probes \cup {p}
               /\ timers' = timers \cup {TimerKey(p)}
    /\ refreshingIds' = addRefreshing(refreshingIds, SITES[idx].id)
    /\ results' = installOne(results, SITES[idx].id, now)
    /\ lastChecked' = now
    /\ UNCHANGED <<now, mounted, refreshInterval, isCheckingRef, isChecking, runs>>

\* handleCheckSite returns at once while a full run is in progress
CheckSiteSingleFlight(idx) ==
    /\ mounted
    /\ ~isCheckingRef
    /\ \E k \in 1..MaxRunOne :
         /\ FreeOneSlot(k)
         /\ LET p == startProbe("one", k, idx, SITES[idx], now)
            IN /\ probes' = probes \cup {p}
               /\ timers' = timers \cup {TimerKey(p)}
    /\ refreshingIds' = addRefreshing(refreshingIds, SITES[idx].id)
    /\ results' = installOne(results, SITES[idx].id, now)
    /\ UNCHANGED <<now, mounted, refreshInterval, isCheckingRef, isChecking,
                   lastChecked, runs>>

\* lines 202-223: the call up to its await
CheckSite(idx) ==
    /\ mounted
    /\ \E k \in 1..MaxRunOne :
         /\ FreeOneSlot(k)
         /\ LET p == startProbe("one", k, idx, SITES[idx], now)
            IN /\ probes' = probes \cup {p}
               /\ timers' = timers \cup {TimerKey(p)}
    /\ refreshingIds' = addRefreshing(refreshingIds, SITES[idx].id)
    /\ results' = installOne(results, SITES[idx].id, now)
    /\ UNCHANGED <<now, mounted, refreshInterval, isCheckingRef, isChecking,
                   lastChecked, runs>>

\* the timer is cleared on the success path only
clearTimeoutOnSuccess(tm, p, outcome) ==
    IF outcome = "ok" THEN tm \ {TimerKey(p)} ELSE tm

\* lines 24 and 28: clearTimeout(timeoutId) on the success and the failure
\* path of the attempt of p that ends with outcome
clearTimeout(tm, p, outcome) == tm \ {TimerKey(p)}

(***************************************************************************)
(* An attempt ends: fetchUrl lines 24-30, then the continuations of        *)
(* checkConnectivity, and of handleCheckSite (lines 225-235) or            *)
(* handleCheckAll (lines 281-301) when the probe resolves.                 *)
(***************************************************************************)
AttemptDone(p, outcome) ==
    LET q   == checkConnectivity(settled(p, outcome, now), fetchUrl(outcome), now)
        tm1 == clearTimeout(timers, p, outcome)
        ps1 == (probes \ {p}) \cup {q}
    IN
    /\ UNCHANGED <<now, mounted, refreshInterval, lastChecked>>
    /\ IF InFlight(q)
       THEN \* the root attempt is issued
            /\ probes' = ps1
            /\ timers' = tm1 \cup {TimerKey(q)}
            /\ UNCHANGED <<isCheckingRef, isChecking, refreshingIds, results, runs>>
       ELSE IF p.kind = "probe"
       THEN \* called on its own: the resolved promise is kept
            /\ probes' = ps1
            /\ timers' = tm1
            /\ UNCHANGED <<isCheckingRef, isChecking, refreshingIds, results, runs>>
       ELSE IF p.kind = "one"
       THEN /\ probes' = probes \ {p}
            /\ timers' = tm1
            /\ results' = mergeOne(results, SITES[p.idx].id, q.result)
            /\ refreshingIds' = deleteRefreshing(refreshingIds, SITES[p.idx].id)
            /\ UNCHANGED <<isCheckingRef, isChecking, runs>>
       ELSE IF ~batchSettled(ps1, p.slot)
       THEN \* Promise.all still waits
            /\ probes' = ps1
            /\ timers' = tm1
            /\ UNCHANGED <<isCheckingRef, isChecking, refreshingIds, results, runs>>
       ELSE LET i == runs[p.slot].i
            IN RunLoop(p.slot, i + batchSize,
                       mergeBatch(results, batchResults(ps1, p.slot, i)),
                       removeBatch(refreshingIds, i),
                       ps1 \ ProbesOf(ps1, p.slot), tm1,
                       isCheckingRef, isChecking)

\* the sites outside SlowSites answer in the order of SITES
Answers(p) ==
    \/ p.idx \in SlowSites
    \/ \A q \in probes : (InFlight(q) /\ q.idx \notin SlowSites) => p.idx <= q.idx

\* fetchUrl lines 14-30: the request settles before the timer has fired
FetchSettle(p, outcome) ==
    /\ p \in probes
    /\ InFlight(p)
    /\ outcome \in Outcomes(p.idx)
    /\ Answers(p)
    /\ AttemptDone(p, outcome)

\* fetchUrl line 11: the timer fires and aborts the request
TimerFire(p) ==
    /\ p \in probes
    /\ InFlight(p)
    /\ TimerKey(p) \in timers
    /\ elapsed(p.start, now) >= timeoutOf(p.phase)
    /\ AttemptDone(p, "abort")

\* a timer that is due fires before the clock advances again, and the sites
\* outside SlowSites have answered
Tick ==
    /\ now < MaxTicks * TickMs
    /\ \A p \in probes : InFlight(p) =>
          /\ p.idx \in SlowSites
          /\ elapsed(p.start, now) < timeoutOf(p.phase)
    /\ now' = now + TickMs
    /\ UNCHANGED <<mounted, refreshInterval, isCheckingRef, isChecking, lastChecked,
                   refreshingIds, results, runs, probes, timers>>

\* the loop of lines 278-297 before its first test, over n sites
startLoop(n) == [n |-> n, i |-> 0, calls |-> << >>, done |-> FALSE]

NoLoop == startLoop(0)

\* the site store before useSitesManager is used
NoData == [categories |-> << >>, sites |-> << >>]

(***************************************************************************)
(* The specification                                                       *)
(***************************************************************************)
Init ==
    /\ now = 0
    /\ mounted = FALSE
    /\ refreshInterval \in SavedIntervals
    /\ isCheckingRef = FALSE
    /\ isChecking = FALSE
    /\ lastChecked = Null
    /\ refreshingIds = {}
    /\ results = << >>
    /\ runs = [r \in 1..MaxRunSlots |-> [active |-> FALSE, i |-> 0]]
    /\ probes = {}
    /\ timers = {}
    /\ lastCall = "none"
    /\ loop = NoLoop
    /\ data = NoData
    /\ intervalTimers = << >>

Next ==
    \/ Mount /\ UNCHANGED <<lastCall, loop, data, intervalTimers>>
    \/ ManualCheckAll /\ UNCHANGED <<lastCall, loop, data, intervalTimers>>
    \/ IntervalCheckAll /\ UNCHANGED <<lastCall, loop, data, intervalTimers>>
    \/ \E idx \in RunOneSites : CheckSite(idx) /\ UNCHANGED <<lastCall, loop, data, intervalTimers>>
    \/ \E p \in probes, outcome \in {"ok", "net"} :
          FetchSettle(p, outcome) /\ UNCHANGED <<lastCall, loop, data, intervalTimers>>
    \/ \E p \in probes : TimerFire(p) /\ UNCHANGED <<lastCall, loop, data, intervalTimers>>
    \/ Tick /\ UNCHANGED <<lastCall, loop, data, intervalTimers>>

Spec == Init /\ [][Next]_vars

(***************************************************************************)
(* The same steps, with the calls of handleCheckAll made visible: a call   *)
(* that returns at line 240 changes no state of the program, so lastCall   *)
(* records that the step was a call and whether a run was active.          *)
(***************************************************************************)
Called ==
    /\ lastCall' = IF ActiveRuns # {} THEN "whileActive" ELSE "whileIdle"
    /\ UNCHANGED <<loop, data, intervalTimers>>

NotCalled == lastCall' = "none" /\ UNCHANGED <<loop, data, intervalTimers>>

NextCalls ==
    \/ Mount /\ Called
    \/ ManualCheckAll /\ Called
    \/ IntervalCheckAll /\ Called
    \/ \E idx \in RunOneSites : CheckSite(idx) /\ NotCalled
    \/ \E p \in probes, outcome \in {"ok", "net"} :
          FetchSettle(p, outcome) /\ NotCalled
    \/ \E p \in probes : TimerFire(p) /\ NotCalled
    \/ Tick /\ NotCalled

SpecCalls == Init /\ [][NextCalls]_vars

(***************************************************************************)
(* Spec with the guarantee fetchUrl gives for every attempt of a run's     *)
(* probe: the fetch settles or, at timeoutMs, the timer of line 11 aborts  *)
(* it, so an attempt in flight does not stay in flight for ever.           *)
(***************************************************************************)
RunAttemptSettles ==
    \E p \in probes :
       /\ p.kind = "all"
       /\ \/ \E outcome \in {"ok", "net"} : FetchSettle(p, outcome)
          \/ TimerFire(p)
       /\ UNCHANGED <<lastCall, loop, data, intervalTimers>>

\* an attempt of a run's probe is in flight: the states in which
\* RunAttemptSettles is enabled
RunProbeInFlight == \E p \in probes : p.kind = "all" /\ InFlight(p)

\* an invariant of Spec: RunAttemptSettles is enabled exactly when a probe of
\* a run has an attempt in flight
RunAttemptEnabled == RunProbeInFlight <=> ENABLED <<RunAttemptSettles>>_vars

\* weak fairness of RunAttemptSettles, WF_vars(RunAttemptSettles), written
\* out with RunProbeInFlight for ENABLED <<RunAttemptSettles>>_vars
SpecFair == Spec /\ (<>[]RunProbeInFlight => []<><<RunAttemptSettles>>_vars)

(***************************************************************************)
(* The same steps, with the user pressing the refresh button of a card     *)
(* whose site answers fast, while a run waits for the slow site of the     *)
(* same batch.                                                             *)
(***************************************************************************)
OverlapSites == {2}

NextOverlap ==
    \/ Mount /\ UNCHANGED <<lastCall, loop, data, intervalTimers>>
    \/ ManualCheckAll /\ UNCHANGED <<lastCall, loop, data, intervalTimers>>
    \/ IntervalCheckAll /\ UNCHANGED <<lastCall, loop, data, intervalTimers>>
    \/ \E idx \in OverlapSites :
          CheckSite(idx) /\ UNCHANGED <<lastCall, loop, data, intervalTimers>>
    \/ \E p \in probes, outcome \in {"ok", "net"} :
          FetchSettle(p, outcome) /\ UNCHANGED <<lastCall, loop, data, intervalTimers>>
    \/ \E p \in probes : TimerFire(p) /\ UNCHANGED <<lastCall, loop, data, intervalTimers>>
    \/ Tick /\ UNCHANGED <<lastCall, loop, data, intervalTimers>>

SpecOverlap == Init /\ [][NextOverlap]_vars

(***************************************************************************)
(* The Auto Refresh Effect, lines 304-313, with its timer made explicit,   *)
(* and the interval select of the header.  React runs the cleanup of the   *)
(* previous run of an effect, then the effect, when a dependency changed.  *)
(***************************************************************************)
\* Header.tsx lines 23-30: the values of INTERVAL_OPTIONS
INTERVAL_OPTIONS == {0, 3000, 10000, 30000, 60000, 300000}

\* the effect returns no cleanup
clearIntervalMissing(tm, prevInterval) == tm

\* line 312: the cleanup that the previous run of the effect returned, if
\* it did not return at line 306: clearInterval(id) of the timer it armed
clearInterval(tm, prevInterval) ==
    IF prevInterval = 0 THEN tm ELSE SubSeq(tm, 1, Len(tm) - 1)

\* lines 305-310: the effect with refreshInterval = ms
setInterval(tm, ms) == IF ms = 0 THEN tm ELSE Append(tm, ms)

\* the mount effects, the Auto Refresh Effect among them
MountInterval ==
    /\ Mount
    /\ intervalTimers' = setInterval(intervalTimers, refreshInterval)
    /\ lastCall' = "none"
    /\ UNCHANGED <<loop, data>>

\* Header.tsx line 194: setRefreshInterval(Number(e.target.value)); the
\* state changes, and the effect is cleaned up and run again
SetRefreshInterval(ms) ==
    /\ mounted
    /\ ms \in INTERVAL_OPTIONS
    /\ ms # refreshInterval
    /\ refreshInterval' = ms
    /\ intervalTimers' = setInterval(clearInterval(intervalTimers, refreshInterval), ms)
    /\ lastCall' = "none"
    /\ UNCHANGED <<now, mounted, isCheckingRef, isChecking, lastChecked, refreshingIds,
                   results, runs, probes, timers, loop, data>>

\* lines 308-310: an armed timer fires and calls handleCheckAll
IntervalFires ==
    /\ mounted
    /\ \E k \in 1..Len(intervalTimers) : lastCall' = "interval"
    /\ handleCheckAll
    /\ UNCHANGED <<now, mounted, refreshInterval, intervalTimers, loop, data>>

InitInterval ==
    /\ now = 0
    /\ mounted = FALSE
    /\ refreshInterval \in SavedIntervals \cup {0}
    /\ isCheckingRef = FALSE
    /\ isChecking = FALSE
    /\ lastChecked = Null
    /\ refreshingIds = {}
    /\ results = << >>
    /\ runs = [r \in 1..MaxRunSlots |-> [active |-> FALSE, i |-> 0]]
    /\ probes = {}
    /\ timers = {}
    /\ lastCall = "none"
    /\ loop = NoLoop
    /\ data = NoData
    /\ intervalTimers = << >>

NextInterval ==
    \/ MountInterval
    \/ \E ms \in INTERVAL_OPTIONS : SetRefreshInterval(ms)
    \/ IntervalFires
    \/ \E p \in probes, outcome \in {"ok", "net"} :
          /\ FetchSettle(p, outcome)
          /\ lastCall' = "none"
          /\ UNCHANGED <<loop, data, intervalTimers>>
    \/ \E p \in probes :
          TimerFire(p) /\ lastCall' = "none" /\ UNCHANGED <<loop, data, intervalTimers>>
    \/ Tick /\ lastCall' = "none" /\ UNCHANGED <<loop, data, intervalTimers>>

SpecInterval == InitInterval /\ [][NextInterval]_vars

TypeOK ==
    /\ now \in 0..(MaxTicks * TickMs)
    /\ mounted \in BOOLEAN
    /\ isCheckingRef \in BOOLEAN
    /\ isChecking \in BOOLEAN
    /\ refreshingIds \subseteq SiteIds
    /\ DOMAIN results \subseteq SiteIds
    /\ \A p \in probes : p.phase \in {"favicon", "root", "resolved"}

(***************************************************************************)
(* The for loop of handleCheckAll on its own (lines 278-281), over a       *)
(* collection of n sites, n from 0 to MaxCollection: loop.calls lists the  *)
(* positions of the sites that checkConnectivity has been called for.      *)
(***************************************************************************)
InitBatch ==
    /\ now = 0
    /\ mounted = FALSE
    /\ refreshInterval \in SavedIntervals
    /\ isCheckingRef = FALSE
    /\ isChecking = FALSE
    /\ lastChecked = Null
    /\ refreshingIds = {}
    /\ results = << >>
    /\ runs = [r \in 1..MaxRunSlots |-> [active |-> FALSE, i |-> 0]]
    /\ probes = {}
    /\ timers = {}
    /\ lastCall = "none"
    /\ data = NoData
    /\ intervalTimers = << >>
    /\ \E n \in 0..MaxCollection : loop = startLoop(n)

\* lines 278-280: the test holds; the slice at loop.i is taken and
\* checkConnectivity is called for each of its sites; then i += batchSize
LoopStep ==
    /\ ~loop.done
    /\ loop.i < loop.n
    /\ loop' = [loop EXCEPT !.calls = @ \o slice(loop.n, loop.i),
                            !.i = @ + batchSize]
    /\ UNCHANGED <<now, mounted, refreshInterval, isCheckingRef, isChecking,
                   lastChecked, refreshingIds, results, runs, probes, timers, lastCall,
                   data, intervalTimers>>

\* line 278: the test fails and the loop is left
LoopExit ==
    /\ ~loop.done
    /\ loop.i >= loop.n
    /\ loop' = [loop EXCEPT !.done = TRUE]
    /\ UNCHANGED <<now, mounted, refreshInterval, isCheckingRef, isChecking,
                   lastChecked, refreshingIds, results, runs, probes, timers, lastCall,
                   data, intervalTimers>>

NextBatch == LoopStep \/ LoopExit

SpecBatch == InitBatch /\ [][NextBatch]_vars

(***************************************************************************)
(* The Site Prober on its own: one call of checkConnectivity for a site    *)
(* drawn from ProbeInputs, followed to its resolution.                     *)
(***************************************************************************)
unparsable(k) == [valid |-> FALSE, origin |-> 0, path |-> "", raw |-> k]

ProbeInputs ==
    {<<k, SITES[k]>> : k \in SlowSites}
      \cup {<<k, [id |-> SITES[k].id, url |-> unparsable(k)]>> : k \in SlowSites}

InitProbe ==
    /\ now \in {0, TickMs}
    /\ mounted = FALSE
    /\ refreshInterval \in SavedIntervals
    /\ isCheckingRef = FALSE
    /\ isChecking = FALSE
    /\ lastChecked = Null
    /\ refreshingIds = {}
    /\ results = << >>
    /\ runs = [r \in 1..MaxRunSlots |-> [active |-> FALSE, i |-> 0]]
    /\ lastCall = "none"
    /\ loop = NoLoop
    /\ data = NoData
    /\ intervalTimers = << >>
    /\ \E in \in ProbeInputs :
         LET p == startProbe("probe", 0, in[1], in[2], now)
         IN /\ probes = {p}
            /\ timers = {TimerKey(p)}

NextProbe ==
    \/ \E p \in probes, outcome \in {"ok", "net"} :
          FetchSettle(p, outcome) /\ UNCHANGED <<lastCall, loop, data, intervalTimers>>
    \/ \E p \in probes : TimerFire(p) /\ UNCHANGED <<lastCall, loop, data, intervalTimers>>
    \/ Tick /\ UNCHANGED <<lastCall, loop, data, intervalTimers>>

SpecProbe == InitProbe /\ [][NextProbe]_vars


(***************************************************************************)
(* useSitesManager.ts: the site store.  A URL is the sequence of its       *)
(* characters; a site is its id, url and category, a category its id.      *)
(***************************************************************************)
Url1 == <<"a", ".", "b">>
Url2 == <<"A", "/", "b">>
Url3 == <<"c">>

\* the URLs typed into the SiteEditor form
Urls == {Url1, Url2, Url3}

\* the ids of the default categories that the model uses
CategoryIds == {"AI", "Search", "Other"}

\* the characters of Urls in [a-zA-Z0-9]
AlphaNumeric == {"a", "b", "c", "A"}

\* String.prototype.toLowerCase on one character of Urls
toLowerCase(c) == IF c = "A" THEN "a" ELSE c

\* lines 136, 281: url.replace(/[^a-zA-Z0-9]/g, '_').toLowerCase()
siteIdOf(url) ==
    [k \in 1..Len(url) |-> toLowerCase(IF url[k] \in AlphaNumeric THEN url[k] ELSE "_")]

\* lines 133-143
addSite(prev, site) ==
    [prev EXCEPT !.sites =
        Append(@, [id |-> siteIdOf(site.url), url |-> site.url,
                   category |-> site.category])]

\* line 152: { ...site, ...updates }
mergeSite(site, updates) ==
    [id       |-> IF "id" \in DOMAIN updates THEN updates.id ELSE site.id,
     url      |-> IF "url" \in DOMAIN updates THEN updates.url ELSE site.url,
     category |-> IF "category" \in DOMAIN updates THEN updates.category
                  ELSE site.category]

\* lines 148-155
editSite(prev, id, updates) ==
    [prev EXCEPT !.sites =
        [k \in 1..Len(@) |-> IF @[k].id = id THEN mergeSite(@[k], updates) ELSE @[k]]]

\* lines 160-165
deleteSite(prev, id) ==
    [prev EXCEPT !.sites = SelectSeq(@, LAMBDA site : site.id # id)]

\* lines 173-175: the filter of importSites
isNewSite(prev, newSite) ==
    ~\E k \in 1..Len(prev.sites) :
        prev.sites[k].id = newSite.id \/ prev.sites[k].url = newSite.url

\* lines 170-177
importSites(prev, newSites) ==
    [prev EXCEPT !.sites = @ \o SelectSeq(newSites, LAMBDA n : isNewSite(prev, n))]

\* line 115
hasOtherCategory(prev) == \E k \in 1..Len(prev.categories) : prev.categories[k].id = "Other"

\* the sites always go to 'Other'
moveTargetOther(prev) == "Other"

\* line 122: hasOtherCategory ? 'Other' : (prev.categories[0]?.id || 'Other')
moveTarget(prev) ==
    IF hasOtherCategory(prev) THEN "Other"
    ELSE IF Len(prev.categories) > 0 THEN prev.categories[1].id
    ELSE "Other"

\* lines 113-128
deleteCategory(prev, id) ==
    [categories |-> SelectSeq(prev.categories, LAMBDA cat : cat.id # id),
     sites |-> [k \in 1..Len(prev.sites) |->
                  IF prev.sites[k].category = id
                  THEN [prev.sites[k] EXCEPT !.category = moveTarget(prev)]
                  ELSE prev.sites[k]]]

\* the store found in localStorage at startup (loadSitesData, lines 30-44): a
\* site added by addSite, and three of the default categories
SavedData ==
    [categories |-> << [id |-> "AI"], [id |-> "Search"], [id |-> "Other"] >>,
     sites |-> << [id |-> siteIdOf(Url1), url |-> Url1, category |-> "AI"] >>]

\* the categories that the select of the SiteEditor form offers
\* (SitesSettingsModal.tsx lines 707-716): those of the store
Offered(prev) == {prev.categories[k].id : k \in 1..Len(prev.categories)}

\* the updates that SiteEditor hands to editSite (SitesSettingsModal.tsx
\* lines 654-662, 759): the fields of the form, which has no id
Updates(prev) == {[url |-> u] : u \in Urls} \cup {[category |-> c] : c \in Offered(prev)}

\* the entries of an imported list: a site under each of its two URLs that
\* yield one id, and a second site
ImportPool ==
    {[id |-> siteIdOf(u), url |-> u, category |-> "Other"] : u \in {Url2, Url3}}

ImportLists ==
    {<<x>> : x \in ImportPool} \cup {<<x, y>> : x \in ImportPool, y \in ImportPool}

StoreFrame ==
    UNCHANGED <<now, mounted, refreshInterval, isCheckingRef, isChecking, lastChecked,
                refreshingIds, results, runs, probes, timers, lastCall, loop,
                intervalTimers>>

InitSites ==
    /\ now = 0
    /\ mounted = FALSE
    /\ refreshInterval \in SavedIntervals
    /\ isCheckingRef = FALSE
    /\ isChecking = FALSE
    /\ lastChecked = Null
    /\ refreshingIds = {}
    /\ results = << >>
    /\ runs = [r \in 1..MaxRunSlots |-> [active |-> FALSE, i |-> 0]]
    /\ probes = {}
    /\ timers = {}
    /\ lastCall = "none"
    /\ loop = NoLoop
    /\ intervalTimers = << >>
    /\ data = SavedData

AddSite ==
    /\ Len(data.sites) < MaxStoreSites
    /\ \E u \in Urls, c \in Offered(data) :
          data' = addSite(data, [url |-> u, category |-> c])
    /\ StoreFrame

EditSite ==
    /\ \E k \in 1..Len(data.sites), updates \in Updates(data) :
          data' = editSite(data, data.sites[k].id, updates)
    /\ StoreFrame

DeleteSite ==
    /\ \E k \in 1..Len(data.sites) : data' = deleteSite(data, data.sites[k].id)
    /\ StoreFrame

ImportSites ==
    /\ \E newSites \in ImportLists :
          /\ Len(data.sites) + Len(newSites) <= MaxStoreSites
          /\ data' = importSites(data, newSites)
    /\ StoreFrame

\* SitesSettingsModal.tsx line 353: deleteCategory(category.id) for a
\* category of the store
DeleteCategory ==
    /\ \E k \in 1..Len(data.categories) :
          data' = deleteCategory(data, data.categories[k].id)
    /\ StoreFrame

NextSites == AddSite \/ EditSite \/ DeleteSite \/ ImportSites \/ DeleteCategory

SpecSites == InitSites /\ [][NextSites]_vars

(***************************************************************************)
(* Properties of the Batch Scheduler, checked under Spec                   *)
(***************************************************************************)
Terminal == {"SUCCESS", "ERROR", "TIMEOUT"}

\* a step in which a call of handleCheckAll gets past the single-flight test
RunStarts == \E r \in 1..MaxRunSlots : ~runs[r].active /\ runs'[r].active

Unresolved(r) == {p \in ProbesOf(probes, r) : InFlight(p)}

\* C1: at most one execution of handleCheckAll is active at a time, whatever
\* the interleaving of the mount, manual and interval triggers.
C1_SingleFlight == Cardinality(ActiveRuns) <= 1

\* a trigger has arrived during a run and one execution is active
C1_Witness ==
    /\ lastCall = "whileActive"
    /\ Cardinality(ActiveRuns) = 1
    /\ isCheckingRef

\* C2: a call of handleCheckAll made while a run is active dispatches no
\* probe and leaves the Result Store, the RefreshSet, the last-checked
\* timestamp and the in-progress flag as they were.
C2_CallDuringRunIsNoOp ==
    [][lastCall' = "whileActive" =>
          UNCHANGED <<probes, timers, results, refreshingIds, lastChecked,
                      isCheckingRef, isChecking, runs>>]_vars

\* a call was made during a run whose probes are in flight, at a time later
\* than the start of the run
C2_Witness ==
    /\ lastCall = "whileActive"
    /\ \E r \in ActiveRuns : Unresolved(r) # {}
    /\ lastChecked < now

\* C3: in a run over more sites than batchSize, the probes dispatched by the
\* run and not yet resolved never number more than batchSize.
C3_ConcurrencyBound ==
    \A r \in 1..MaxRunSlots : Cardinality(Unresolved(r)) <= batchSize

\* the collection is larger than a batch and a full batch is in flight
C3_Witness ==
    /\ Len(SITES) > batchSize
    /\ \E r \in ActiveRuns : Cardinality(Unresolved(r)) = batchSize

\* C4: a stored SUCCESS, ERROR or TIMEOUT result is never replaced by a
\* PENDING one: the step that starts a run leaves the entry as it is, and
\* any step that changes it stores another terminal result.
C4_AntiFlicker ==
    [][\A id \in DOMAIN results :
          results[id].status \in Terminal =>
             /\ id \in DOMAIN results'
             /\ results'[id].status \in Terminal
             /\ (RunStarts => results'[id] = results[id])]_vars

\* a run is active, a site awaits its new result and still shows the result
\* of an earlier probe
C4_Witness ==
    /\ isCheckingRef
    /\ \E id \in refreshingIds :
          /\ id \in DOMAIN results
          /\ results[id].status \in Terminal
          /\ results[id].timestamp < lastChecked
          /\ \E r \in ActiveRuns : \E p \in Unresolved(r) : p.siteId = id

\* C9: every entry of the Result Store has latency >= 0, and every entry
\* whose status is not SUCCESS (PENDING, ERROR or TIMEOUT) has latency 0.
C9_LatencyInvariant ==
    \A id \in DOMAIN results :
       /\ results[id].latency >= 0
       /\ results[id].status # "SUCCESS" => results[id].latency = 0

\* the store holds a TIMEOUT result, produced after time had passed, next
\* to a PENDING placeholder and a SUCCESS result
C9_Witness ==
    /\ \E id \in DOMAIN results :
          results[id].status = "TIMEOUT" /\ results[id].timestamp > lastChecked
    /\ \E id \in DOMAIN results : results[id].status = "PENDING"
    /\ \E id \in DOMAIN results : results[id].status = "SUCCESS"

\* the probe p of this state is gone in the next: its owner has taken its
\* result
Consumed(p) ==
    ~\E q \in probes' : q.kind = p.kind /\ q.slot = p.slot /\ q.idx = p.idx

\* the results that probe p hands to its owner in the step that consumes it:
\* the one it holds, or the one it resolves with in this step
Delivered(p) ==
    IF p.phase = "resolved" THEN {p.result}
    ELSE {r \in {checkConnectivity(settled(p, o, now), o, now).result :
                    o \in {"ok", "net", "abort"}} : r # NoValue}

Failed(req) == req.outcome \in {"net", "abort"}

\* C5: when both attempts fail the result has latency 0, and status TIMEOUT
\* if the favicon attempt, the root attempt or both were aborted by their
\* timer, ERROR if both failed with a network error.
C5_BothAttemptsFail ==
    \A p \in probes :
       (Len(p.reqs) = 2 /\ Failed(p.reqs[1]) /\ Failed(p.reqs[2])) =>
          /\ p.phase = "resolved"
          /\ p.result.latency = 0
          /\ p.result.status =
                IF p.reqs[1].outcome = "abort" \/ p.reqs[2].outcome = "abort"
                THEN "TIMEOUT" ELSE "ERROR"

\* the favicon attempt alone timed out and the probe resolved TIMEOUT
C5_Witness ==
    \E p \in probes :
       /\ Len(p.reqs) = 2
       /\ p.reqs[1].outcome = "abort"
       /\ p.reqs[2].outcome = "net"
       /\ p.result.status = "TIMEOUT"

\* C6: when the favicon attempt succeeds the result is SUCCESS with the
\* elapsed time of that attempt as latency, and no second request is made.
C6_FaviconSuccess ==
    \A p \in probes :
       p.reqs[1].outcome = "ok" =>
          /\ p.phase = "resolved"
          /\ p.result.status = "SUCCESS"
          /\ p.result.latency = p.reqs[1].end - p.reqs[1].at
          /\ Len(p.reqs) = 1

\* a favicon attempt issued after time 0 succeeded after some time
C6_Witness ==
    \E p \in probes :
       /\ p.reqs[1].outcome = "ok"
       /\ p.reqs[1].at > 0
       /\ p.result.latency > 0

\* C7: when the favicon attempt fails, by timeout or network error, and the
\* GET of the root URL succeeds, the result is SUCCESS with the elapsed time
\* of the root attempt alone as latency.
C7_FallbackSuccess ==
    \A p \in probes :
       (Len(p.reqs) = 2 /\ Failed(p.reqs[1]) /\ p.reqs[2].outcome = "ok") =>
          /\ p.phase = "resolved"
          /\ p.reqs[2].url = p.url
          /\ p.result.status = "SUCCESS"
          /\ p.result.latency = p.reqs[2].end - p.reqs[2].at

\* the favicon attempt took time and failed, the root attempt succeeded
C7_Witness ==
    \E p \in probes :
       /\ Len(p.reqs) = 2
       /\ Failed(p.reqs[1])
       /\ p.reqs[1].end > p.reqs[1].at
       /\ p.reqs[2].outcome = "ok"
       /\ p.phase = "resolved"

\* C8: checkConnectivity never fails outward: it makes at most two
\* requests, and once its last request has ended it has resolved with a
\* CheckResult that carries the id of the probed site and status SUCCESS,
\* ERROR or TIMEOUT; it has no result before.
C8_AlwaysResolves ==
    \A p \in probes :
       /\ p.phase \in {"favicon", "root", "resolved"}
       /\ Len(p.reqs) <= 2
       /\ InFlight(p) <=> p.reqs[Len(p.reqs)].outcome = "pending"
       /\ InFlight(p) => p.result = NoValue
       /\ p.phase = "resolved" =>
             /\ p.result.siteId = SITES[p.idx].id
             /\ p.result.status \in Terminal

\* both attempts of a probe of an unparsable URL failed and it resolved
C8_Witness ==
    \E p \in probes :
       /\ ~p.url.valid
       /\ Len(p.reqs) = 2
       /\ Failed(p.reqs[2])
       /\ p.phase = "resolved"
       /\ p.result.status = "ERROR"

(***************************************************************************)
(* Properties of the RefreshSet and of runOne                              *)
(***************************************************************************)
\* C11: a siteId is in the RefreshSet whenever a probe of that site,
\* dispatched by handleCheckAll or by handleCheckSite, is unresolved.
C11_RefreshSetCoversInFlight ==
    \A p \in probes :
       (p.kind \in {"all", "one"} /\ InFlight(p)) => p.siteId \in refreshingIds

OneProbes(ps) == {p \in ps : p.kind = "one"}

AllProbes(ps) == {p \in ps : p.kind = "all"}

\* a step in which a call of handleCheckSite dispatches its probe
OneDispatched ==
    \E p \in OneProbes(probes') : \A q \in OneProbes(probes) : q.slot # p.slot

RunFrame == UNCHANGED <<isCheckingRef, isChecking, lastChecked, runs>>

\* C12: handleCheckSite neither reads nor writes the in-progress flag or the
\* last-checked timestamp: it can dispatch its probe whether or not a run is
\* executing and leaves the flag, the timestamp and the run's probes as they
\* are, at its call and at its return; a call of handleCheckAll made while
\* no run is active is accepted whatever handleCheckSite calls are in
\* flight and leaves their probes alone; every probe, of either handler,
\* stores the result it resolved with.
C12_RunOneIndependent ==
    /\ [](mounted /\ (\E k \in 1..MaxRunOne : FreeOneSlot(k))
            => ENABLED (\E idx \in RunOneSites : CheckSite(idx)))
    /\ [](mounted /\ ~isCheckingRef => ENABLED (ManualCheckAll /\ RunStarts))
    /\ [][/\ OneDispatched =>
               RunFrame /\ AllProbes(probes') = AllProbes(probes)
          /\ RunStarts => OneProbes(probes') = OneProbes(probes)
          /\ \A p \in probes :
               (p.kind \in {"one", "all"} /\ Consumed(p)) =>
                  /\ results'[p.siteId] \in Delivered(p)
                  /\ p.kind = "one" =>
                        RunFrame /\ AllProbes(probes') = AllProbes(probes)]_vars

\* a run and a later call of handleCheckSite both have a probe of the same
\* site in flight
C12_Witness ==
    /\ isCheckingRef
    /\ \E p \in OneProbes(probes), q \in AllProbes(probes) :
          /\ p.siteId = q.siteId
          /\ InFlight(p) /\ InFlight(q)
          /\ p.reqs[1].at > lastChecked

(***************************************************************************)
(* Progress of a run, checked under SpecFair                               *)
(***************************************************************************)
\* a step in which a run of handleCheckAll reaches lines 299-301
RunFinishes == isCheckingRef /\ ~isCheckingRef'

\* C13: if every attempt of its probes settles, an accepted run finishes:
\* the in-progress flag is cleared, and at that point every site of the
\* collection, of whatever batch, shows a SUCCESS, ERROR or TIMEOUT result
\* no older than the run, whichever probes failed or timed out.
C13_RunTerminates ==
    /\ isCheckingRef ~> ~isCheckingRef
    /\ [][RunFinishes =>
            /\ ActiveRuns' = {}
            /\ AllProbes(probes') = {}
            /\ \A id \in SiteIds :
                  /\ id \in DOMAIN results'
                  /\ results'[id].status \in Terminal
                  /\ results'[id].timestamp >= lastChecked]_vars

\* a run has finished in which the first site timed out while the other
\* sites of its batch and the site of the last batch were reached
C13_Witness ==
    /\ ~isCheckingRef
    /\ AllProbes(probes) = {}
    /\ OneProbes(probes) = {}
    /\ DOMAIN results = SiteIds
    /\ results[SITES[1].id].status = "TIMEOUT"
    /\ \A k \in 2..Len(SITES) :
          /\ results[SITES[k].id].status = "SUCCESS"
          /\ results[SITES[k].id].timestamp >= lastChecked
    /\ results[SITES[Len(SITES)].id].timestamp = results[SITES[1].id].timestamp

(***************************************************************************)
(* Triggers and runs, checked under SpecCalls                              *)
(***************************************************************************)
\* C14: a call of handleCheckAll made while a run is active is dropped, not
\* queued: a run starts only in a step that is a call made while no run is
\* active, and every such call starts one; in every other step, the end of
\* a run included, no run starts or starts over and no probe of a run is
\* dispatched unless the run was active and moves to its next batch.
C14_DroppedNotQueued ==
    [][/\ lastCall' = "whileIdle" => RunStarts /\ lastChecked' = now
       /\ lastCall' # "whileIdle" =>
             /\ ~RunStarts
             /\ \A r \in 1..MaxRunSlots :
                   runs'[r].active => runs[r].active /\ runs'[r].i >= runs[r].i
       /\ RunFinishes => AllProbes(probes') = {} /\ lastCall' = "none"]_vars

\* a trigger arrives after a run has completed and clock time has passed,
\* and starts a new run
C14_Witness ==
    /\ lastCall = "whileIdle"
    /\ isCheckingRef
    /\ lastChecked = now
    /\ \A id \in SiteIds :
          /\ id \in DOMAIN results
          /\ results[id].status \in Terminal
          /\ results[id].timestamp < now

(***************************************************************************)
(* Outstanding requests, checked under Spec                                *)
(***************************************************************************)
\* the probes, of either handler, with a request outstanding
Outstanding == {p \in probes : p.kind \in {"all", "one"} /\ InFlight(p)}

\* C15 as stated: the probes of the executing run and of the overlapping
\* calls of handleCheckSite with a request outstanding never number more than
\* batchSize.
C15_TotalWithinBatchSize == Cardinality(Outstanding) <= batchSize

\* C15 as amended: they never number more than batchSize plus the number of
\* calls of handleCheckSite in flight, of which the probes of the run are at
\* most batchSize.
C15_TotalWithinBatchSizePlusRunOne ==
    /\ Cardinality(Outstanding) <= batchSize + Cardinality(OneProbes(probes))
    /\ Cardinality(Outstanding \cap AllProbes(probes)) <= batchSize

\* a full batch and a call of handleCheckSite are outstanding together
C15_Witness ==
    /\ Cardinality(Outstanding \cap AllProbes(probes)) = batchSize
    /\ Outstanding \cap OneProbes(probes) # {}
    /\ Cardinality(Outstanding) > batchSize

\* C16: the last-checked timestamp is written exactly by the step in which a
\* call of handleCheckAll is accepted, which sets it to the time of the call,
\* the time at which the first probes of the run are dispatched; a batch or
\* a run completing, handleCheckSite and a dropped call leave it as it is.
C16_LastCheckedAtRunStart ==
    [][/\ RunStarts =>
             /\ lastChecked' = now
             /\ \A p \in AllProbes(probes') \ probes : p.reqs[1].at = lastChecked'
       /\ ~RunStarts => lastChecked' = lastChecked]_vars

\* after a run has finished, a call of handleCheckSite has stored a result
\* later than the last-checked timestamp
C16_Witness ==
    /\ ~isCheckingRef
    /\ probes = {}
    /\ lastChecked # Null
    /\ lastChecked < now
    /\ \E id \in DOMAIN results :
          results[id].status \in Terminal /\ results[id].timestamp > lastChecked

(***************************************************************************)
(* The batches of a run, checked under Spec                                *)
(***************************************************************************)
\* the probes that activation r dispatches in a step
Dispatched(r) == {p \in ProbesOf(probes', r) : p.phase = "favicon" /\ p \notin probes}

\* C17: the probes of a run are those of one batch, dispatched together in
\* one step; the step that dispatches the batch at i + batchSize finds
\* every probe of the batch at i resolved, but for the one that resolves in
\* that step, and stores the result of each of them.
C17_BatchesSequential ==
    /\ [](\A r \in ActiveRuns :
            {p.idx : p \in ProbesOf(probes, r)} = batchPositions(runs[r].i))
    /\ [][\A r \in 1..MaxRunSlots :
            Dispatched(r) # {} =>
               /\ runs'[r].i = IF runs[r].active THEN runs[r].i + batchSize ELSE 0
               /\ {p.idx : p \in Dispatched(r)} = batchPositions(runs'[r].i)
               /\ \A p \in Dispatched(r) : p.reqs[1].at = now
               /\ ProbesOf(probes', r) = Dispatched(r)
               /\ Cardinality(Unresolved(r)) <= 1
               /\ \A p \in ProbesOf(probes, r) :
                     results'[p.siteId] \in Delivered(p)]_vars

\* a first run has its second batch in flight: the sites of the first batch
\* show their results, the first of them a failure
C17_Witness ==
    \E r \in ActiveRuns :
       /\ runs[r].i = batchSize
       /\ Unresolved(r) # {}
       /\ results[SITES[1].id].status \in {"ERROR", "TIMEOUT"}
       /\ \A k \in 1..batchSize : results[SITES[k].id].status \in Terminal
       /\ \A p \in Unresolved(r) : results[p.siteId].status = "PENDING"

\* C18: the step in which a call of handleCheckAll is accepted, which is the
\* step that dispatches the first probes of the run, puts the id of every
\* site in the RefreshSet and leaves every site with an entry in the Result
\* Store: the entry it had, or a PENDING placeholder of latency 0 if it had
\* none.
C18_RunStartMarksAll ==
    [][RunStarts =>
          /\ refreshingIds' = SiteIds
          /\ DOMAIN results' = SiteIds
          /\ \A id \in SiteIds :
                results'[id] = IF id \in DOMAIN results THEN results[id]
                               ELSE [siteId |-> id, status |-> "PENDING",
                                     latency |-> 0, timestamp |-> now]]_vars

\* a later run has just been accepted: its first batch has been dispatched,
\* every site is in the RefreshSet and shows the result of an earlier time
C18_Witness ==
    /\ lastChecked = now
    /\ refreshingIds = SiteIds
    /\ \E r \in ActiveRuns :
          /\ runs[r].i = 0
          /\ Cardinality(Unresolved(r)) = batchSize
    /\ \A id \in SiteIds :
          /\ id \in DOMAIN results
          /\ results[id].status \in Terminal
          /\ results[id].timestamp < lastChecked

(***************************************************************************)
(* The partition into batches, checked under SpecBatch                     *)
(***************************************************************************)
Positions(k) == [j \in 1..k |-> j]

\* C19: the loop takes the collection in consecutive slices of batchSize
\* sites, the last one possibly shorter, and calls checkConnectivity once
\* for each site, in order, none skipped and none repeated: after each
\* iteration the calls made are those for the first i sites (all n of them
\* once i passes n), and when the loop is left they are those for the n
\* sites, whatever n is, 0 and the multiples of batchSize included.
C19_OneCallPerSite ==
    /\ loop.i % batchSize = 0
    /\ loop.calls = Positions(IF loop.i < loop.n THEN loop.i ELSE loop.n)
    /\ loop.done => loop.calls = Positions(loop.n)

\* the loop has been left after a last batch shorter than batchSize
C19_Witness ==
    /\ loop.done
    /\ loop.n > 2 * batchSize
    /\ loop.n % batchSize # 0
    /\ Len(loop.calls) = loop.n

(***************************************************************************)
(* The merge of a batch, checked under Spec                                *)
(***************************************************************************)
\* a step in which activation r resumes after the await of line 281
BatchStep(r) ==
    /\ runs[r].active
    /\ runs'[r].i > runs[r].i \/ ~runs'[r].active

\* C20: the step that merges a batch finds every probe of the batch
\* resolved, but for the one that resolves in that step, stores the result
\* of each, and removes the ids of the batch from the RefreshSet; every id
\* it removes shows a SUCCESS, ERROR or TIMEOUT result no older than the
\* run.  A step in which a probe of a run settles without completing its
\* batch changes neither the Result Store nor the RefreshSet.
C20_MergeThenRemove ==
    [][/\ \A r \in 1..MaxRunSlots :
            BatchStep(r) =>
               /\ {p.idx : p \in ProbesOf(probes, r)} = batchPositions(runs[r].i)
               /\ Cardinality(Unresolved(r)) <= 1
               /\ \A p \in ProbesOf(probes, r) :
                     /\ results'[p.siteId] \in Delivered(p)
                     /\ p.siteId \notin refreshingIds'
               /\ \A id \in refreshingIds \ refreshingIds' :
                     /\ results'[id].status \in Terminal
                     /\ results'[id].timestamp >= lastChecked
       /\ (\E p \in AllProbes(probes) : p \notin probes'
                 /\ \A r \in 1..MaxRunSlots : ~BatchStep(r)) =>
             UNCHANGED <<results, refreshingIds>>]_vars

\* in a later run the first batch has been merged and removed from the
\* RefreshSet; the site of the batch in flight is in the set and shows its
\* result of the earlier run
C20_Witness ==
    \E r \in ActiveRuns :
       /\ runs[r].i = batchSize
       /\ lastChecked > 0
       /\ refreshingIds = {p.siteId : p \in Unresolved(r)}
       /\ refreshingIds # {}
       /\ \A id \in refreshingIds :
             results[id].status \in Terminal /\ results[id].timestamp < lastChecked
       /\ \A id \in SiteIds \ refreshingIds :
             results[id].status \in Terminal /\ results[id].timestamp >= lastChecked

(***************************************************************************)
(* The steps of handleCheckSite, checked under Spec                        *)
(***************************************************************************)
\* the probe that a call of handleCheckSite dispatches in the step
NewOneProbes == {p \in OneProbes(probes') : \A q \in OneProbes(probes) : q.slot # p.slot}

\* C21: the step in which handleCheckSite is called adds the id of the site
\* to the RefreshSet and changes the Result Store only by installing a
\* PENDING placeholder for a site without an entry; a step in which an
\* attempt of its probe ends without resolving it changes neither; the step
\* in which the probe resolves stores its result and removes the id, and
\* only the id, from the RefreshSet.  The updater of lines 208-221, applied
\* to any store the program reaches (the empty one before the first run
\* included), adds a PENDING placeholder of latency 0 for a site without an
\* entry and returns the store as it is otherwise.
C21_RunOneSteps ==
    /\ [](\A id \in SiteIds :
            installOne(results, id, now) =
               IF id \in DOMAIN results THEN results
               ELSE [sid \in DOMAIN results \cup {id} |->
                       IF sid = id THEN [siteId |-> id, status |-> "PENDING",
                                       latency |-> 0, timestamp |-> now]
                       ELSE results[sid]])
    /\ [][/\ \A p \in NewOneProbes :
               /\ refreshingIds' = refreshingIds \cup {p.siteId}
               /\ results' = IF p.siteId \in DOMAIN results THEN results
                             ELSE Put(results, p.siteId,
                                      [siteId |-> p.siteId, status |-> "PENDING",
                                       latency |-> 0, timestamp |-> now])
          /\ \A p \in OneProbes(probes) :
               /\ (p \notin probes' /\ ~Consumed(p)) => UNCHANGED <<results, refreshingIds>>
               /\ Consumed(p) =>
                     /\ results'[p.siteId] \in Delivered(p)
                     /\ results'[p.siteId].status \in Terminal
                     /\ \A id \in DOMAIN results' \ {p.siteId} :
                           id \in DOMAIN results /\ results'[id] = results[id]
                     /\ refreshingIds' = refreshingIds \ {p.siteId}]_vars

\* while no run is active a call of handleCheckSite for a site that shows a
\* result is on its second attempt: the site is in the RefreshSet and still
\* shows the earlier result
C21_Witness ==
    /\ ~isCheckingRef
    /\ \E p \in OneProbes(probes) :
          /\ p.phase = "root"
          /\ p.siteId \in refreshingIds
          /\ p.siteId \in DOMAIN results
          /\ results[p.siteId].status \in Terminal
          /\ results[p.siteId].timestamp < p.reqs[1].at

(***************************************************************************)
(* The end of a run, checked under Spec                                    *)
(***************************************************************************)
\* a step in which activation r resumes from the await of its last batch
LastBatchStep(r) ==
    /\ runs[r].active
    /\ runs[r].i + batchSize >= Len(SITES)
    /\ ProbesOf(probes, r) # {}
    /\ ProbesOf(probes', r) = {}

\* C22: the step that processes the last batch of a run leaves the
\* in-progress flag, ref and state, false, no activation running and the
\* RefreshSet empty, whatever the set held before the step and whatever
\* calls of handleCheckSite are still in flight.
C22_RunEndClears ==
    [][\A r \in 1..MaxRunSlots :
          LastBatchStep(r) =>
             /\ ~isCheckingRef'
             /\ ~isChecking'
             /\ ActiveRuns' = {}
             /\ refreshingIds' = {}]_vars

\* a run has ended while a call of handleCheckSite made during its last
\* batch is in flight: the RefreshSet is empty
C22_Witness ==
    /\ ~isCheckingRef
    /\ ~isChecking
    /\ ActiveRuns = {}
    /\ refreshingIds = {}
    /\ \E p \in OneProbes(probes) :
          /\ InFlight(p)
          /\ p.reqs[1].at > lastChecked
          /\ p.reqs[1].at >= results[p.siteId].timestamp
          /\ \A id \in SiteIds : results[id].timestamp >= lastChecked

(***************************************************************************)
(* Properties of the Probe Primitive                                       *)
(***************************************************************************)
\* the timeout of the k-th request of a probe
TimeoutOfRequest(k) == IF k = 1 THEN FAVICON_TIMEOUT_MS ELSE TIMEOUT_MS

\* the error that checkConnectivity caught for the k-th request of p
CaughtError(p, k) == IF k = 1 THEN p.err1 ELSE p.err2

\* C23: every attempt ends once, with one of success, network error or
\* abort, and its outcome never changes afterwards; it ends with abort only
\* by its timer, that is in flight, with the timer armed and no earlier than
\* its timeout after its start; an attempt that ends before its timeout
\* ends with success or network error; checkConnectivity catches the kind
\* of failure the attempt ended with, and none when it succeeded.
C23_OneOutcomePerAttempt ==
    /\ [](\A p \in probes : \A k \in 1..Len(p.reqs) :
            /\ p.reqs[k].outcome \in {"pending", "ok", "net", "abort"}
            /\ p.reqs[k].outcome = "pending" => k = Len(p.reqs) /\ InFlight(p)
            /\ p.reqs[k].outcome = "abort" =>
                  p.reqs[k].end - p.reqs[k].at >= TimeoutOfRequest(k)
            /\ (p.reqs[k].outcome # "pending"
                   /\ p.reqs[k].end - p.reqs[k].at < TimeoutOfRequest(k)) =>
                  p.reqs[k].outcome \in {"ok", "net"}
            /\ Failed(p.reqs[k]) => CaughtError(p, k) = p.reqs[k].outcome
            /\ p.reqs[k].outcome \in {"ok", "pending"} => CaughtError(p, k) = "none")
    /\ [][\A p \in probes :
            /\ \E q \in probes' :
                  /\ Len(q.reqs) >= Len(p.reqs)
                  /\ \A k \in 1..Len(p.reqs) :
                        p.reqs[k].outcome # "pending" => q.reqs[k] = p.reqs[k]
            /\ \A q \in probes' :
                  q.reqs[Len(p.reqs)].outcome = "abort" /\ InFlight(p) =>
                     /\ TimerKey(p) \in timers
                     /\ elapsed(p.start, now) >= timeoutOf(p.phase)]_vars

\* the favicon attempt ended with a network error although its timeout had
\* passed, and the root attempt was aborted by its timer
C23_Witness ==
    \E p \in probes :
       /\ Len(p.reqs) = 2
       /\ p.reqs[1].outcome = "net"
       /\ p.reqs[1].end - p.reqs[1].at >= FAVICON_TIMEOUT_MS
       /\ p.reqs[2].outcome = "abort"
       /\ p.err1 = "net"
       /\ p.err2 = "abort"

\* the timers of the attempts in flight
TimersInFlight == {TimerKey(p) : p \in {x \in probes : InFlight(x)}}

\* C24: the armed timers are exactly the timers of the attempts in flight,
\* one for each: when an attempt has returned or failed its timer is not
\* armed, and the step in which an attempt ends disarms its timer.
C24_NoLeakedTimers ==
    /\ [](/\ timers = TimersInFlight
          /\ Cardinality(timers) = Cardinality({p \in probes : InFlight(p)}))
    /\ [][\A p \in probes :
            (InFlight(p) /\ p \notin probes') => TimerKey(p) \notin timers']_vars

\* a favicon attempt has failed with a network error and a root attempt has
\* been aborted; the probes in flight, of a run and of a call of
\* handleCheckSite, have their timers armed
C24_Witness ==
    /\ \E id \in DOMAIN results : results[id].status = "TIMEOUT"
    /\ \E p \in AllProbes(probes) : p.phase = "root" /\ p.err1 = "net"
    /\ \E p \in OneProbes(probes) : InFlight(p)
    /\ Cardinality(timers) >= 2

(***************************************************************************)
(* URL parse failure, checked under SpecProbe                              *)
(***************************************************************************)
\* C25: for a site whose URL cannot be parsed the favicon attempt is made to
\* the raw URL of the site (for a parsable one, to /favicon.ico of its
\* origin); if that attempt fails the fallback attempt is made, to the raw
\* URL again; and once its last attempt has ended the probe has resolved
\* with a CheckResult of the site with status SUCCESS, ERROR or TIMEOUT.
C25_UnparsableUrl ==
    \A p \in probes :
       /\ p.reqs[1].url = IF p.url.valid
                          THEN [valid |-> TRUE, origin |-> p.url.origin,
                                path |-> "/favicon.ico"]
                          ELSE p.url
       /\ p.url.valid => p.reqs[1].url # p.url
       /\ ~p.url.valid =>
             /\ Failed(p.reqs[1]) => Len(p.reqs) = 2 /\ p.reqs[2].url = p.url
             /\ p.reqs[1].outcome = "ok" => Len(p.reqs) = 1
             /\ p.reqs[Len(p.reqs)].outcome # "pending" =>
                   /\ p.phase = "resolved"
                   /\ p.result.siteId = p.siteId
                   /\ p.result.status \in Terminal
                   /\ p.result.status = "SUCCESS" <=> p.reqs[Len(p.reqs)].outcome = "ok"

\* for an unparsable URL the attempt to the raw URL was aborted and the
\* fallback to the same URL succeeded
C25_Witness ==
    \E p \in probes :
       /\ ~p.url.valid
       /\ Len(p.reqs) = 2
       /\ p.reqs[1].url = p.url
       /\ p.reqs[1].outcome = "abort"
       /\ p.reqs[2].url = p.url
       /\ p.reqs[2].outcome = "ok"
       /\ p.result.status = "SUCCESS"

(***************************************************************************)
(* Properties of the site store, checked under SpecSites                   *)
(***************************************************************************)
\* C26: no two sites of the store have the same id.
C26_UniqueSiteIds ==
    \A i, j \in 1..Len(data.sites) :
       data.sites[i].id = data.sites[j].id => i = j

\* a step that removes category id from the store
CategoryDeleted(id) ==
    /\ id \in Offered(data)
    /\ id \notin Offered(data')

\* the sites of the store after those of category id have gone to target
SitesMoved(id, target) ==
    [k \in 1..Len(data.sites) |->
        IF data.sites[k].category = id
        THEN [data.sites[k] EXCEPT !.category = target]
        ELSE data.sites[k]]

C28_PendingIsRefreshing ==
    /\ [](\A id \in DOMAIN results :
            results[id].status = "PENDING" => id \in refreshingIds)
    /\ [][\A id \in refreshingIds \ refreshingIds' :
            id \in DOMAIN results' /\ results'[id].status \in Terminal]_vars

\* in the first run a call of handleCheckSite has stored the first site's
\* result and taken its id out of the RefreshSet; the probe of the run for
\* that site is unresolved, and the site of the second batch shows its
\* placeholder
C28_Witness ==
    /\ isCheckingRef
    /\ SITES[1].id \notin refreshingIds
    /\ results[SITES[1].id].status \in Terminal
    /\ \E r \in ActiveRuns : \E p \in Unresolved(r) : p.siteId = SITES[1].id
    /\ results[SITES[Len(SITES)].id].status = "PENDING"
    /\ SITES[Len(SITES)].id \in refreshingIds

(***************************************************************************)
(* Timestamps of the stored results, checked under SpecOverlap             *)
(***************************************************************************)
\* C29 as stated: no step lowers the timestamp of a stored result.
C29_TimestampNeverDecreases ==
    [][\A id \in DOMAIN results :
          results'[id].timestamp >= results[id].timestamp]_vars

\* C29 as amended: a stored result was produced no later than the present
\* time; the merge of handleCheckSite stores a result produced at the time
\* of the merge and never lowers the timestamp; a step lowers the timestamp
\* of a site only as the merge of a batch of a run that stores the result
\* which the run's probe of that site had resolved with earlier, and which
\* was held by Promise.all while a later result was stored.
C29_LastWriteWins ==
    /\ [](\A id \in DOMAIN results : results[id].timestamp <= now)
    /\ [][/\ \A p \in OneProbes(probes) :
               Consumed(p) =>
                  /\ results'[p.siteId].timestamp = now
                  /\ results'[p.siteId].timestamp >= results[p.siteId].timestamp
          /\ \A id \in DOMAIN results :
               results'[id].timestamp < results[id].timestamp =>
                  \E r \in 1..MaxRunSlots :
                     /\ BatchStep(r)
                     /\ \E p \in ProbesOf(probes, r) :
                           /\ p.siteId = id
                           /\ p.phase = "resolved"
                           /\ results'[id] = p.result]_vars

\* a run holds the result its probe of a site resolved with while its batch
\* waits, and a call of handleCheckSite has since stored a later result for
\* that site
C29_Witness ==
    \E r \in ActiveRuns : \E p \in ProbesOf(probes, r) :
       /\ p.phase = "resolved"
       /\ Unresolved(r) # {}
       /\ results[p.siteId].status \in Terminal
       /\ results[p.siteId].timestamp > p.result.timestamp
       /\ results[p.siteId].timestamp > lastChecked

(***************************************************************************)
(* The interval timer, checked under SpecInterval                          *)
(***************************************************************************)
\* C30: at most one interval timer is armed; none is armed while
\* refreshInterval is 0 or before the mount; while it is not 0 the armed
\* timer is the one of refreshInterval; a step that changes refreshInterval
\* leaves no timer of the previous interval; and a call of handleCheckAll by
\* a timer is made by the timer of the current refreshInterval.
C30_OneIntervalTimer ==
    /\ [](/\ Len(intervalTimers) <= 1
          /\ (refreshInterval = 0 \/ ~mounted) => intervalTimers = << >>
          /\ (refreshInterval # 0 /\ mounted) => intervalTimers = <<refreshInterval>>)
    /\ [][/\ refreshInterval' # refreshInterval =>
               /\ \A k \in 1..Len(intervalTimers') :
                     intervalTimers'[k] = refreshInterval'
               /\ Len(intervalTimers') = IF refreshInterval' = 0 THEN 0 ELSE 1
          /\ lastCall' = "interval" =>
               /\ refreshInterval # 0
               /\ intervalTimers = <<refreshInterval>>
               /\ UNCHANGED <<refreshInterval, intervalTimers>>]_vars

\* the interval has been changed from the saved one, and the timer of the
\* new interval has fired after time has passed and started a run
C30_Witness ==
    /\ lastCall = "interval"
    /\ refreshInterval \notin SavedIntervals \cup {0}
    /\ intervalTimers = <<refreshInterval>>
    /\ isCheckingRef
    /\ lastChecked = now
    /\ now > 0

=============================================================================
